---------------------------- MODULE Spec2Model ----------------------------
(***************************************************************************)
(* A model of garage's torch SAC trainer (garage/torch/algos/sac.py) and   *)
(* of the greedy ArgmaxDiscretePolicy (garage/torch/policies/argmax.py).   *)
(*                                                                         *)
(* Numbers are exact rationals <<n, d>> (d > 0, lowest terms); <<0, 0>>    *)
(* stands for NaN (numpy's mean of an empty list).  Every network has one  *)
(* scalar parameter: a Q-function is Q_w(s, a) = w * (s + a), the policy   *)
(* draws a = theta * s + eps and scores it with -(a - theta * s)^2.  The   *)
(* optimizer handed to the constructor is plain gradient descent.          *)
(***************************************************************************)
EXTENDS Integers, Sequences, FiniteSets, TLC

\* ------------------------------------------------------------ bounds
MaxCalls == 2      \* top-level calls made on one trainer
MaxStored == 2     \* transitions the replay buffer may hold
MaxBatch == 2      \* buffer_batch_size handed to the constructor
NumActions == 3    \* actions of the discrete Q-function behind the greedy policy
MaxQ == 2          \* Q-values of that Q-function range over 0..MaxQ

\* ------------------------------------------------------------ rationals
AbsInt(x) == IF x < 0 THEN -x ELSE x

RECURSIVE GCD(_, _)
GCD(a, b) == IF b = 0 THEN a ELSE GCD(b, a % b)

Rat(n, d) ==
    LET g == GCD(AbsInt(n), AbsInt(d))
        s == IF d < 0 THEN -1 ELSE 1
    IN  IF d = 0 THEN <<0, 0>> ELSE <<s * (n \div g), s * (d \div g)>>

RInt(n) == <<n, 1>>
Zero == <<0, 1>>
One == <<1, 1>>
Half == <<1, 2>>
NaN == <<0, 0>>

RAdd(x, y) == Rat(x[1] * y[2] + y[1] * x[2], x[2] * y[2])
RNeg(x) == <<-x[1], x[2]>>
RSub(x, y) == RAdd(x, RNeg(y))
RMul(x, y) == Rat(x[1] * y[1], x[2] * y[2])
RLeq(x, y) == x[1] * y[2] <= y[1] * x[2]
RMin(x, y) == IF RLeq(x, y) THEN x ELSE y

RECURSIVE RSum(_)
RSum(xs) == IF xs = <<>> THEN Zero ELSE RAdd(xs[1], RSum(Tail(xs)))

\* torch's Tensor.mean() / numpy.mean: the sum over the count, NaN when empty
mean(xs) == IF xs = <<>> THEN NaN ELSE RMul(RSum(xs), Rat(1, Len(xs)))

\* ------------------------------------------------------------ state
VARIABLES
    alpha,                 \* self.alpha
    tau,                   \* self.tau
    discount,              \* self.discount
    buffer_batch_size,     \* self.buffer_batch_size
    min_buffer_size,       \* self.min_buffer_size
    use_automatic_entropy_tuning,
    params,                \* the parameter of policy, qf1, qf2 and their targets
    grad,                  \* the .grad accumulated on each parameter
    opt_steps,             \* optimizer.step() calls made on each optimizer
    n_transitions_stored,  \* replay_buffer.n_transitions_stored
    ipdb_installed,        \* whether `import ipdb` succeeds in this environment
    episode_rewards,       \* self.episode_rewards
    success_history,       \* self.success_history
    pc,                    \* where a train_once call in progress stands
    samples,               \* train_once's local `samples`
    last_average_return,   \* train_once's local `last_average_return`
    trace,                 \* the calls made inside the current top-level call
    outcome,               \* how the current top-level call ended
    ncalls,                \* top-level calls made so far
    seen_paths,            \* every path handed to train_once so far, in order
    qlog,                  \* the locals of the last update_q_functions call
    qf,                    \* ArgmaxDiscretePolicy.qf: observation -> Q-values
    actlog                 \* the get_action calls made so far

sacvars == <<alpha, tau, discount, buffer_batch_size, min_buffer_size,
             use_automatic_entropy_tuning, params, grad, opt_steps,
             n_transitions_stored, ipdb_installed, episode_rewards,
             success_history, pc, samples, last_average_return, trace,
             outcome, ncalls, seen_paths, qlog>>
argvars == <<qf, actlog>>
vars == <<sacvars, argvars>>

Nets == {"policy", "qf1", "qf2", "target_policy", "target_qf1", "target_qf2"}
Optimizers == {"policy_optimizer", "qf1_optimizer", "qf2_optimizer"}

\* ------------------------------------------------------------ collaborators
\* The networks, the replay buffer and the optimizer are handed to the
\* constructor; these are the stand-ins the trainer is run against.

\* qf(obs, actions): one value per sample, linear in the parameter w
QValue(w, s, a) == RMul(w, RAdd(RInt(s), a))
\* d qf(obs, actions) / d w
QFeature(s, a) == RAdd(RInt(s), a)

\* policy.get_actions / policy(obs).rsample(): a = theta * s + eps
PolicyAction(theta, s, eps) == RAdd(RMul(theta, RInt(s)), RInt(eps))
\* policy.log_likelihood(obs, actions) = -(a - theta * s)^2
LogLikelihood(theta, s, a) ==
    LET d == RSub(a, RMul(theta, RInt(s))) IN RNeg(RMul(d, d))

\* the k-th transition the replay buffer holds
Transition(k) ==
    [observation |-> k % 2, action |-> (k \div 2) % 2, reward |-> k % 3,
     next_observation |-> (k + 1) % 2, done |-> (k % 2 = 0)]

\* replay_buffer.sample(batch_size): a batch of stored transitions, as a
\* mapping of parallel sequences; `start` is the sampler's random draw
sample(batch_size, start) ==
    LET t(j) == Transition(((start + j - 2) % n_transitions_stored) + 1)
    IN  [observation |-> [j \in 1..batch_size |-> t(j).observation],
         action |-> [j \in 1..batch_size |-> t(j).action],
         reward |-> [j \in 1..batch_size |-> t(j).reward],
         next_observation |-> [j \in 1..batch_size |-> t(j).next_observation],
         done |-> [j \in 1..batch_size |-> t(j).done]]

\* the noise of one policy sample: the same draw for every row of the batch
NoiseDraws == {0, 1}

\* ------------------------------------------------------------ construction
\* the parameters each optimizer is built over
OptimizerParams(opt) ==
    CASE opt = "policy_optimizer" -> {"policy"}
      [] opt = "qf1_optimizer" -> {"qf1"}
      [] opt = "qf2_optimizer" -> {"qf2"}

\* lr=self.policy_lr / lr=self.qf_lr
LearningRate(opt) == Half

\* copy.deepcopy of the live networks
InitParams ==
    [n \in Nets |->
        CASE n \in {"policy", "target_policy"} -> One
          [] n \in {"qf1", "target_qf1"} -> One
          [] n \in {"qf2", "target_qf2"} -> RInt(2)]

NoSamples ==
    [observation |-> <<>>, action |-> <<>>, reward |-> <<>>,
     next_observation |-> <<>>, done |-> <<>>]

NoLog ==
    [samples |-> <<>>, next_actions |-> <<>>, next_ll |-> <<>>,
     bellman |-> <<>>, pre |-> InitParams, mid |-> InitParams,
     post |-> InitParams]

NoOutcome == [op |-> "none", status |-> "none", exc |-> "none", ret |-> NaN]

TauValues == {Zero, Half, One}
AlphaValues == {One, RInt(2)}

SacInit ==
    /\ alpha \in AlphaValues
    /\ tau \in TauValues
    /\ discount = Half
    /\ buffer_batch_size = MaxBatch
    /\ min_buffer_size = MaxStored
    /\ use_automatic_entropy_tuning = FALSE
    /\ params = InitParams
    /\ grad = [n \in Nets |-> Zero]
    /\ opt_steps = [o \in Optimizers |-> 0]
    /\ n_transitions_stored \in 1..MaxStored
    /\ ipdb_installed \in BOOLEAN
    /\ episode_rewards = <<>>
    /\ success_history = <<>>
    /\ pc = "idle"
    /\ samples = NoSamples
    /\ last_average_return = NaN
    /\ trace = <<>>
    /\ outcome = NoOutcome
    /\ ncalls = 0
    /\ seen_paths = <<>>
    /\ qlog = NoLog

\* ------------------------------------------------------------ autograd
\* The part of the trainer an update works on.
Cur == [params |-> params, grad |-> grad, opt_steps |-> opt_steps]

\* optimizer.zero_grad()
zero_grad(s, opt) ==
    [s EXCEPT !.grad = [n \in Nets |->
        IF n \in OptimizerParams(opt) THEN Zero ELSE s.grad[n]]]

\* loss.backward(): adds d loss / d p to p.grad for every parameter p the
\* loss was computed from with gradient tracking on
backward(s, loss) ==
    [s EXCEPT !.grad = [n \in Nets |->
        IF n \in DOMAIN loss.grads THEN RAdd(s.grad[n], loss.grads[n])
        ELSE s.grad[n]]]

\* optimizer.step(): p <- p - lr * p.grad for the optimizer's parameters
step(s, opt) ==
    [s EXCEPT !.params = [n \in Nets |->
                 IF n \in OptimizerParams(opt)
                 THEN RSub(s.params[n], RMul(LearningRate(opt), s.grad[n]))
                 ELSE s.params[n]],
              !.opt_steps[opt] = @ + 1]

\* the methods a torch.Tensor has, as far as the trainer calls them
TensorMethods == {"backward", "mean", "flatten"}

\* tensor.<name>() for a loss tensor: an unknown attribute raises
\* AttributeError, backward() on a tensor computed without gradient tracking
\* raises RuntimeError, otherwise the gradients are accumulated
call_backward(s, loss, name) ==
    IF name \notin TensorMethods
    THEN [s |-> s, exc |-> "AttributeError"]
    ELSE IF DOMAIN loss.grads = {}
    THEN [s |-> s, exc |-> "RuntimeError"]
    ELSE [s |-> backward(s, loss), exc |-> "none"]

\* ------------------------------------------------------------ update_q_functions
target_qfs == <<"target_qf1", "target_qf2">>
qfs == <<"qf1", "qf2">>
\* a variant that lists the first critic's optimizer twice
qf_optimizers_repeated == <<"qf1_optimizer", "qf1_optimizer">>
qf_optimizers == <<"qf1_optimizer", "qf2_optimizer">>

\* next_actions, _ = self.policy.get_actions(next_obs), under no_grad
get_next_actions(s, smp, eps) ==
    [k \in 1..Len(smp.next_observation) |->
        PolicyAction(s.params["policy"], smp.next_observation[k], eps)]

\* next_ll = self.policy.log_likelihood(next_obs, next_actions), under no_grad
get_next_ll(s, smp, next_actions) ==
    [k \in 1..Len(smp.next_observation) |->
        LogLikelihood(s.params["policy"], smp.next_observation[k],
                      next_actions[k])]

\* a variant that drops the bootstrap term of terminal transitions
bellman_masked(s, target_qf, smp, next_actions, next_ll) ==
    [k \in 1..Len(smp.reward) |->
        LET targ_out == QValue(s.params[target_qf], smp.next_observation[k],
                               next_actions[k])
            bootstrapped_value == RSub(targ_out, RMul(alpha, next_ll[k]))
        IN  IF smp.done[k] THEN RInt(smp.reward[k])
            ELSE RAdd(RInt(smp.reward[k]), RMul(discount, bootstrapped_value))]

\* bellman = rewards + discount * (targ_out - alpha * next_ll), per sample
bellman(s, target_qf, smp, next_actions, next_ll) ==
    [k \in 1..Len(smp.reward) |->
        LET targ_out == QValue(s.params[target_qf], smp.next_observation[k],
                               next_actions[k])
            bootstrapped_value == RSub(targ_out, RMul(alpha, next_ll[k]))
        IN  RAdd(RInt(smp.reward[k]), RMul(discount, bootstrapped_value))]

\* q_objective = 0.5 * F.mse_loss(curr_q_val, bellman), as backward() sees
\* it: its gradient, d/dw of 0.5 * mean((curr_q_val - bellman)^2), reaches
\* the live critic alone (the target is computed under no_grad)
q_objective(s, net, smp, target) ==
    LET curr_q_val == [k \in 1..Len(smp.observation) |->
            QValue(s.params[net], smp.observation[k], RInt(smp.action[k]))]
        err == [k \in 1..Len(smp.observation) |-> RSub(curr_q_val[k], target[k])]
    IN  [grads |-> (net :> mean([k \in DOMAIN err |->
             RMul(err[k], QFeature(smp.observation[k], RInt(smp.action[k])))]))]

\* one pass of the loop over zip(target_qfs, qfs, qf_optimizers)
qf_iteration(s, i, smp, next_actions, next_ll) ==
    LET target == bellman(s, target_qfs[i], smp, next_actions, next_ll)
        loss == q_objective(s, qfs[i], smp, target)
        s1 == zero_grad(s, qf_optimizers[i])
        s2 == call_backward(s1, loss, "backward").s
    IN  [s |-> step(s2, qf_optimizers[i]), bellman |-> target]

update_q_functions(s, smp, eps) ==
    LET next_actions == get_next_actions(s, smp, eps)
        next_ll == get_next_ll(s, smp, next_actions)
        r1 == qf_iteration(s, 1, smp, next_actions, next_ll)
        r2 == qf_iteration(r1.s, 2, smp, next_actions, next_ll)
    IN  [s |-> r2.s,
         log |-> [samples |-> smp, next_actions |-> next_actions,
                  next_ll |-> next_ll, bellman |-> <<r1.bellman, r2.bellman>>,
                  pre |-> s.params, mid |-> r1.s.params, post |-> r2.s.params]]

\* ------------------------------------------------------------ optimize_policy
\* policy_objective = ((alpha * log_pi) - min_q).mean(); log_pi and min_q are
\* both computed under no_grad, so the tensor carries no gradient
policy_objective(s, smp, eps) ==
    LET theta == s.params["policy"]
        actions == [k \in 1..Len(smp.observation) |->
            PolicyAction(theta, smp.observation[k], eps)]
        log_pi == [k \in DOMAIN actions |->
            LogLikelihood(theta, smp.observation[k], actions[k])]
        min_q == [k \in DOMAIN actions |->
            RMin(QValue(s.params["qf1"], smp.observation[k], actions[k]),
                 QValue(s.params["qf2"], smp.observation[k], actions[k]))]
    IN  [value |-> mean([k \in DOMAIN actions |->
                      RSub(RMul(alpha, log_pi[k]), min_q[k])]),
         grads |-> [n \in {} |-> Zero]]

\* the attribute called on policy_objective
policy_backward_name == "backwards"

optimize_policy(s, smp, eps) ==
    LET loss == policy_objective(s, smp, eps)
        s1 == zero_grad(s, "policy_optimizer")
        r == call_backward(s1, loss, policy_backward_name)
    IN  IF r.exc # "none" THEN r
        ELSE [s |-> step(r.s, "policy_optimizer"), exc |-> "none"]

\* ------------------------------------------------------------ adjust_temperature
\* a variant that takes a step on alpha, as a tuned coefficient would
adjust_temperature_tuned(a) == RMul(a, Half)

\* `pass`: the entropy coefficient after the call is the one before it
adjust_temperature(a) == a

\* ------------------------------------------------------------ update_targets
\* a variant with the two weights exchanged
polyak_swapped(t_param, param) ==
    RAdd(RMul(t_param, tau), RMul(param, RSub(One, tau)))

\* t_param.data * (1.0 - self.tau) + param.data * self.tau
polyak(t_param, param) ==
    RAdd(RMul(t_param, RSub(One, tau)), RMul(param, tau))

sync_target_qfs == <<"target_qf1", "target_qf2">>
sync_qfs == <<"qf1", "qf2">>

update_targets(s) ==
    [s EXCEPT !.params = [n \in Nets |->
        IF \E i \in 1..2 : sync_target_qfs[i] = n
        THEN LET i == CHOOSE i \in 1..2 : sync_target_qfs[i] = n
             IN  polyak(s.params[n], s.params[sync_qfs[i]])
        ELSE s.params[n]]]

\* ------------------------------------------------------------ train_once
RECURSIVE SumInts(_)
SumInts(xs) == IF xs = <<>> THEN 0 ELSE xs[1] + SumInts(Tail(xs))

\* OffPolicyRLAlgorithm.process_samples: per path its undiscounted return,
\* its completion flag and its success indicator
process_samples(paths) ==
    [undiscounted_returns |-> [k \in 1..Len(paths) |-> SumInts(paths[k].rewards)],
     complete |-> [k \in 1..Len(paths) |-> paths[k].complete],
     success_history |-> [k \in 1..Len(paths) |-> paths[k].success]]

\* [x for x, complete in zip(xs, flags) if complete]
RECURSIVE completed(_, _)
completed(xs, flags) ==
    IF xs = <<>> \/ flags = <<>> THEN <<>>
    ELSE (IF flags[1] THEN <<xs[1]>> ELSE <<>>)
         \o completed(Tail(xs), Tail(flags))

\* np.mean(self.episode_rewards)
np_mean(xs) == mean([k \in 1..Len(xs) |-> RInt(xs[k])])

PathA == [rewards |-> <<1, 2>>, complete |-> TRUE, success |-> TRUE]
PathB == [rewards |-> <<1>>, complete |-> TRUE, success |-> FALSE]
PathC == [rewards |-> <<5>>, complete |-> FALSE, success |-> TRUE]
\* the path lists handed to train_once
PathBatches == {<<PathC>>, <<PathA, PathC, PathB>>}

Called(op, status) == [op |-> op, status |-> status]
Ended(op, status, exc, ret) ==
    [op |-> op, status |-> status, exc |-> exc, ret |-> ret]

Install(s) ==
    /\ params' = s.params
    /\ grad' = s.grad
    /\ opt_steps' = s.opt_steps

Config == <<tau, discount, buffer_batch_size, min_buffer_size,
            use_automatic_entropy_tuning, n_transitions_stored, ipdb_installed>>
Episodes == <<episode_rewards, success_history, seen_paths>>

\* train_once up to the first `import ipdb; ipdb.set_trace()` (line 129)
TrainOnce(paths, start) ==
    /\ pc = "idle"
    /\ ncalls < MaxCalls
    /\ LET p == process_samples(paths)
           er == episode_rewards \o completed(p.undiscounted_returns, p.complete)
       IN  /\ episode_rewards' = er
           /\ success_history' =
                  success_history \o completed(p.success_history, p.complete)
           /\ last_average_return' = np_mean(er)
    /\ samples' = sample(buffer_batch_size, start)
    /\ trace' = <<Called("replay_buffer.sample", "returned")>>
    /\ IF ipdb_installed
       THEN /\ pc' = "ipdb129"
            /\ outcome' = Ended("train_once", "suspended", "none", NaN)
       ELSE /\ pc' = "idle"
            /\ outcome' = Ended("train_once", "raised", "ModuleNotFoundError", NaN)
    /\ ncalls' = ncalls + 1
    /\ seen_paths' = seen_paths \o paths
    /\ UNCHANGED <<argvars, alpha, Config, params, grad, opt_steps, qlog>>

\* the debugger's `continue` at line 129: update_q_functions, then the second
\* ipdb.set_trace() (line 131)
DebuggerContinue129(eps) ==
    /\ pc = "ipdb129"
    /\ LET r == update_q_functions(Cur, samples, eps)
       IN  Install(r.s) /\ qlog' = r.log
    /\ trace' = Append(trace, Called("update_q_functions", "returned"))
    /\ pc' = "ipdb131"
    /\ UNCHANGED <<argvars, alpha, Config, Episodes, samples, last_average_return,
                   outcome, ncalls>>

\* the debugger's `continue` at line 131: optimize_policy, adjust_temperature,
\* update_targets, return
DebuggerContinue131(eps) ==
    /\ pc = "ipdb131"
    /\ LET r == optimize_policy(Cur, samples, eps)
       IN  IF r.exc # "none"
           THEN /\ Install(r.s)
                /\ alpha' = alpha
                /\ trace' = Append(trace, Called("optimize_policy", "raised"))
                /\ outcome' = Ended("train_once", "raised", r.exc, NaN)
           ELSE /\ Install(update_targets(r.s))
                /\ alpha' = adjust_temperature(alpha)
                /\ trace' = trace \o <<Called("optimize_policy", "returned"),
                                       Called("adjust_temperature", "returned"),
                                       Called("update_targets", "returned")>>
                /\ outcome' = Ended("train_once", "returned", "none",
                                    last_average_return)
    /\ pc' = "idle"
    /\ UNCHANGED <<argvars, Config, Episodes, samples, last_average_return, ncalls, qlog>>

\* the debugger's `quit` at either breakpoint: bdb.BdbQuit leaves train_once
DebuggerQuit ==
    /\ pc \in {"ipdb129", "ipdb131"}
    /\ pc' = "idle"
    /\ outcome' = Ended("train_once", "raised", "BdbQuit", NaN)
    /\ UNCHANGED <<argvars, alpha, Config, Episodes, params, grad, opt_steps, samples,
                   last_average_return, trace, ncalls, qlog>>

\* ------------------------------------------------------------ direct calls
UpdateQFunctions(start, eps) ==
    /\ pc = "idle"
    /\ ncalls < MaxCalls
    /\ LET r == update_q_functions(Cur, sample(buffer_batch_size, start), eps)
       IN  Install(r.s) /\ qlog' = r.log
    /\ trace' = <<Called("update_q_functions", "returned")>>
    /\ outcome' = Ended("update_q_functions", "returned", "none", NaN)
    /\ ncalls' = ncalls + 1
    /\ UNCHANGED <<argvars, alpha, Config, Episodes, pc, samples, last_average_return>>

OptimizePolicy(start, eps) ==
    /\ pc = "idle"
    /\ ncalls < MaxCalls
    /\ LET r == optimize_policy(Cur, sample(buffer_batch_size, start), eps)
       IN  /\ Install(r.s)
           /\ trace' = <<Called("optimize_policy",
                  IF r.exc = "none" THEN "returned" ELSE "raised")>>
           /\ outcome' = Ended("optimize_policy",
                  IF r.exc = "none" THEN "returned" ELSE "raised", r.exc, NaN)
    /\ ncalls' = ncalls + 1
    /\ UNCHANGED <<argvars, alpha, Config, Episodes, pc, samples, last_average_return,
                   qlog>>

AdjustTemperature ==
    /\ pc = "idle"
    /\ ncalls < MaxCalls
    /\ alpha' = adjust_temperature(alpha)
    /\ trace' = <<Called("adjust_temperature", "returned")>>
    /\ outcome' = Ended("adjust_temperature", "returned", "none", NaN)
    /\ ncalls' = ncalls + 1
    /\ UNCHANGED <<argvars, Config, Episodes, params, grad, opt_steps, pc, samples,
                   last_average_return, qlog>>

UpdateTargets ==
    /\ pc = "idle"
    /\ ncalls < MaxCalls
    /\ Install(update_targets(Cur))
    /\ trace' = <<Called("update_targets", "returned")>>
    /\ outcome' = Ended("update_targets", "returned", "none", NaN)
    /\ ncalls' = ncalls + 1
    /\ UNCHANGED <<argvars, alpha, Config, Episodes, pc, samples, last_average_return,
                   qlog>>

\* ------------------------------------------------------------ greedy policy
Observations == {<<0>>, <<1>>}
QRows == [1..NumActions -> 0..MaxQ]

\* np.expand_dims(obs, axis=0)
expand_dims(obs) == <<obs>>
\* self.qf(obs): one row of Q-values per row of the batch
qf_forward(batch) == [i \in 1..Len(batch) |-> qf[batch[i]]]
\* tensor.squeeze(0): drops the leading dimension when its size is 1
squeeze0(x) == IF Len(x) = 1 THEN x[1] ELSE x
\* a variant that returns the largest entry instead of its index
argmax_value(row) == CHOOSE v \in {row[i] : i \in 1..Len(row)} :
    \A j \in 1..Len(row) : row[j] <= v

\* ndarray.argmax(): the 0-based index of the first maximal entry
argmax(row) ==
    (CHOOSE i \in 1..Len(row) :
        /\ \A j \in 1..Len(row) : row[j] <= row[i]
        /\ \A j \in 1..(i - 1) : row[j] < row[i]) - 1

get_action(obs) ==
    LET q_values == squeeze0(qf_forward(expand_dims(obs)))
    IN  [action |-> argmax(q_values), info |-> <<>>]

GetAction(obs) ==
    /\ actlog' = actlog \cup {[obs |-> obs, ret |-> get_action(obs)]}
    /\ UNCHANGED <<qf, sacvars>>

\* ------------------------------------------------------------ specifications
IdleQf == [o \in Observations |-> [a \in 1..NumActions |-> 0]]

Init ==
    /\ SacInit
    /\ qf = IdleQf
    /\ actlog = {}

Next ==
    \/ \E paths \in PathBatches, start \in 1..n_transitions_stored :
          TrainOnce(paths, start)
    \/ \E eps \in NoiseDraws : DebuggerContinue129(eps)
    \/ \E eps \in NoiseDraws : DebuggerContinue131(eps)
    \/ DebuggerQuit
    \/ \E start \in 1..n_transitions_stored, eps \in NoiseDraws :
          UpdateQFunctions(start, eps)
    \/ \E start \in 1..n_transitions_stored, eps \in NoiseDraws :
          OptimizePolicy(start, eps)
    \/ AdjustTemperature
    \/ UpdateTargets

Spec == Init /\ [][Next]_vars

ArgmaxInit ==
    /\ SacInit
    /\ alpha = One
    /\ tau = Half
    /\ use_automatic_entropy_tuning = FALSE
    /\ n_transitions_stored = 1
    /\ ipdb_installed = FALSE
    /\ qf \in [Observations -> QRows]
    /\ actlog = {}

ArgmaxNext == \E obs \in Observations : GetAction(obs)

ArgmaxSpec == ArgmaxInit /\ [][ArgmaxNext]_vars

\* ------------------------------------------------------------ properties
TrainOnceEnded ==
    outcome.op = "train_once" /\ outcome.status \in {"returned", "raised"}

\* a step in which `op` was called, directly or inside train_once
Ran(op) ==
    /\ trace' # <<>>
    /\ trace'[Len(trace')].op = op
    /\ (ncalls' # ncalls \/ Len(trace') > Len(trace))

FullOrder ==
    <<Called("replay_buffer.sample", "returned"),
      Called("update_q_functions", "returned"),
      Called("optimize_policy", "returned"),
      Called("adjust_temperature", "returned"),
      Called("update_targets", "returned")>>

\* C1: every train_once call, after its one replay-buffer sample, runs
\* update_q_functions, optimize_policy, adjust_temperature and update_targets
\* once each, in that order, and reaches update_targets before it returns.
C1_StepOrder ==
    TrainOnceEnded => (outcome.status = "returned" /\ trace = FullOrder)

\* C2: one update_targets call sets each target critic parameter to
\* (1 - tau) * target_old + tau * live and leaves the live parameters alone;
\* tau = 0 keeps the target and tau = 1 makes it equal to the live parameter.
C2_TargetUpdateLaw ==
    [][Ran("update_targets") =>
        \A i \in 1..2 :
            LET t == <<"target_qf1", "target_qf2">>[i]
                q == <<"qf1", "qf2">>[i]
            IN  /\ params'[t] = RAdd(RMul(RSub(One, tau), params[t]),
                                     RMul(tau, params[q]))
                /\ params'[q] = params[q]
                /\ (tau = Zero => params'[t] = params[t])
                /\ (tau = One => params'[t] = params[q])]_vars

\* update_targets has run with tau = 1/2 on a target that differed from its
\* live critic, and moved it
C2_Witness ==
    /\ outcome.op = "update_targets"
    /\ tau = Half
    /\ params["target_qf1"] # InitParams["target_qf1"]
    /\ params["target_qf1"] # params["qf1"]

\* C3: a train_once call never suspends for interactive debugging between
\* drawing the minibatch and returning.
C3_NeverSuspends == pc \notin {"ipdb129", "ipdb131"}

\* C4: every optimize_policy call completes without raising, takes exactly
\* one optimizer step on the policy parameters, and leaves qf1, qf2 and the
\* target networks unchanged.
C4_PolicyStep ==
    [][Ran("optimize_policy") =>
        /\ trace'[Len(trace')].status = "returned"
        /\ opt_steps' = [opt_steps EXCEPT !["policy_optimizer"] = @ + 1]
        /\ \A n \in Nets \ {"policy"} : params'[n] = params[n]]_vars

\* C5: train_once never samples the replay buffer, nor runs the updates,
\* while fewer than min_buffer_size transitions are stored.
C5_MinBufferGuard ==
    (outcome.op = "train_once" /\ trace # <<>>) =>
        n_transitions_stored >= min_buffer_size

\* C6: with automatic entropy tuning disabled no operation of the trainer
\* writes alpha: it keeps its constructor-supplied value.
C6_AlphaFixed ==
    [][use_automatic_entropy_tuning = FALSE => alpha' = alpha]_vars

\* adjust_temperature has run, directly, after another call
C6_Witness ==
    /\ use_automatic_entropy_tuning = FALSE
    /\ outcome.op = "adjust_temperature"
    /\ outcome.status = "returned"
    /\ ncalls = 2

CompletedPaths == SelectSeq(seen_paths, LAMBDA p : p.complete)
ExpectedRewards ==
    [k \in 1..Len(CompletedPaths) |-> SumInts(CompletedPaths[k].rewards)]
ExpectedSuccess ==
    [k \in 1..Len(CompletedPaths) |-> CompletedPaths[k].success]

\* the bookkeeping half of C7 on its own: the two lists hold, in order, the
\* entries of the completed episodes handed in so far
EpisodeListsFollowPaths ==
    /\ episode_rewards = ExpectedRewards
    /\ success_history = ExpectedSuccess

\* C7: episode_rewards and success_history hold, in order, exactly the
\* entries of the completed episodes handed to train_once so far, and each
\* train_once call returns the mean of all completed-episode returns so far.
C7_RunningMean ==
    /\ EpisodeListsFollowPaths
    /\ TrainOnceEnded =>
          /\ outcome.status = "returned"
          /\ outcome.ret = np_mean(ExpectedRewards)

\* C8: get_action returns the index of an action whose Q-value is maximal,
\* with an empty info mapping, and calls with the same Q-function and
\* observation return the same index.
C8_GreedyAction ==
    /\ \A e \in actlog :
          /\ e.ret.action \in 0..(NumActions - 1)
          /\ \A j \in 1..NumActions :
                qf[e.obs][j] <= qf[e.obs][e.ret.action + 1]
          /\ e.ret.info = <<>>
    /\ \A e1, e2 \in actlog : e1.obs = e2.obs => e1.ret.action = e2.ret.action

\* both observations were queried, the answers differ, and one of them broke
\* a tie between two maximal actions
C8_Witness ==
    /\ \E e1, e2 \in actlog : e1.ret.action # e2.ret.action
    /\ \E e \in actlog :
          /\ e.ret.action = 1
          /\ qf[e.obs][2] = qf[e.obs][3]
          /\ qf[e.obs][1] < qf[e.obs][2]

\* C9: in one update_q_functions call the step for critic i changes critic
\* i's parameters only, both targets and the policy are unchanged by the
\* call, and each critic's optimizer takes exactly one step.
C9_CriticFrame ==
    [][Ran("update_q_functions") =>
        /\ qlog'.pre = params
        /\ qlog'.post = params'
        /\ \A n \in Nets \ {"qf1"} : qlog'.mid[n] = qlog'.pre[n]
        /\ \A n \in Nets \ {"qf2"} : qlog'.post[n] = qlog'.mid[n]
        /\ \A n \in Nets \ {"qf1", "qf2"} : params'[n] = params[n]
        /\ opt_steps' = [opt_steps EXCEPT !["qf1_optimizer"] = @ + 1,
                                          !["qf2_optimizer"] = @ + 1]]_vars

\* a second update_q_functions call has moved both critics, each in its own
\* pass of the loop
C9_Witness ==
    /\ outcome.op = "update_q_functions"
    /\ ncalls = 2
    /\ opt_steps["qf1_optimizer"] = 2
    /\ qlog.mid["qf1"] # qlog.pre["qf1"]
    /\ qlog.post["qf2"] # qlog.mid["qf2"]

\* C10: the regression target of critic i is, for every sample,
\* reward + discount * (target_qf_i(next_obs, a') - alpha * log_pi(a' | next_obs))
\* with target_qf_i the target of critic i, a' one action drawn from the live
\* policy and shared by both critics, log_pi taken at that a', and no
\* (1 - done) factor.
C10_BellmanTarget ==
    qlog.samples # <<>> =>
        LET smp == qlog.samples
            theta == qlog.pre["policy"]
        IN  /\ \E eps \in NoiseDraws :
                  \A k \in 1..Len(smp.reward) :
                      qlog.next_actions[k] =
                          PolicyAction(theta, smp.next_observation[k], eps)
            /\ \A i \in 1..2, k \in 1..Len(smp.reward) :
                  LET w == qlog.pre[<<"target_qf1", "target_qf2">>[i]]
                      a == qlog.next_actions[k]
                      ll == LogLikelihood(theta, smp.next_observation[k], a)
                      q == RMul(w, RAdd(RInt(smp.next_observation[k]), a))
                  IN  /\ qlog.next_ll[k] = ll
                      /\ qlog.bellman[i][k] =
                            RAdd(RInt(smp.reward[k]),
                                 RMul(discount, RSub(q, RMul(alpha, ll))))

\* a batch with a terminal transition was used, and its target carries a
\* bootstrap term: it differs from the bare reward for both critics, and the
\* two critics' targets differ from each other
C10_Witness ==
    /\ qlog.samples # <<>>
    /\ \E k \in 1..Len(qlog.samples.reward) :
          /\ qlog.samples.done[k]
          /\ qlog.bellman[1][k] # RInt(qlog.samples.reward[k])
          /\ qlog.bellman[2][k] # RInt(qlog.samples.reward[k])
          /\ qlog.bellman[1][k] # qlog.bellman[2][k]
=============================================================================
